---- MODULE Spec2Model ----
(***************************************************************************)
(* Model of report_template/render.js: the command line of the renderer,   *)
(* the computation of its paths and names, the normalisation of the        *)
(* metadata, and the sequence of awaited steps of main() with the          *)
(* top-level rejection handler.                                            *)
(*                                                                         *)
(* A JavaScript string is a sequence of one-character strings; an absolute *)
(* path that the program has resolved is a sequence of segments.           *)
(***************************************************************************)
EXTENDS Integers, Sequences, FiniteSets, TLC

\* ------------------------------------------------------------------ bounds

\* Number of clock readings the model distinguishes (half-hour steps).
MaxTick == 3
\* Longest region array of a data file.
MaxRegions == 2
\* Number of successive runs whose output names are compared.
MaxRuns == 2
\* Number of modification times around the threshold, one second apart.
MaxFileTick == 2
\* Longest directory string given to toBaseUrl.
MaxPathLen == 3
\* Longest command line given to parseArgs on its own.
MaxArgs == 4

\* ------------------------------------------------------------------ strings

Str_html_flag == <<"-", "-", "h", "t", "m", "l">>
Str_pdf_ext == <<".", "p", "d", "f">>
Str_report == <<"r", "e", "p", "o", "r", "t", "-">>
Str_dash == <<"-">>
Str_template == <<"r", "e", "p", "o", "r", "t", "_", "t", "e", "m", "p", "l", "a", "t", "e",
                  ".", "h", "t", "m", "l">>

\* String.prototype.toLowerCase on the letters the model uses.
Lower(c) ==
  CASE c = "P" -> "p"
    [] c = "D" -> "d"
    [] c = "F" -> "f"
    [] OTHER -> c

toLowerCase(s) == [i \in 1..Len(s) |-> Lower(s[i])]

\* String(n) for a natural number: its decimal digits.
DigitChar(d) == <<"0", "1", "2", "3", "4", "5", "6", "7", "8", "9">>[d + 1]

RECURSIVE NumStr(_)
NumStr(n) == IF n < 10 THEN <<DigitChar(n)>>
             ELSE NumStr(n \div 10) \o <<DigitChar(n % 10)>>

\* String.prototype.padStart(2, "0")
padStart2(s) == IF Len(s) >= 2 THEN s ELSE IF Len(s) = 1 THEN <<"0">> \o s
                ELSE <<"0", "0">>

IsSpace(c) == c \in {" ", "\t", "\n"}

\* String.prototype.trim: leading and trailing white space removed.
RECURSIVE TrimLeft(_)
TrimLeft(s) == IF s # <<>> /\ IsSpace(Head(s)) THEN TrimLeft(Tail(s)) ELSE s

RECURSIVE TrimRight(_)
TrimRight(s) == IF s # <<>> /\ IsSpace(s[Len(s)])
                THEN TrimRight(SubSeq(s, 1, Len(s) - 1)) ELSE s

trim(s) == TrimRight(TrimLeft(s))

\* ------------------------------------------------------------------ node:path (posix)

\* The working directory of the process and the directory of render.js.
Cwd == << <<"w">> >>
Dirname == << <<"a", "p", "p">> >>

\* The segments of a path string: split at "/", empty segments dropped.
RECURSIVE SplitFrom(_, _, _, _)
SplitFrom(s, i, cur, acc) ==
  IF i > Len(s) THEN (IF cur = <<>> THEN acc ELSE Append(acc, cur))
  ELSE IF s[i] = "/"
       THEN SplitFrom(s, i + 1, <<>>, IF cur = <<>> THEN acc ELSE Append(acc, cur))
       ELSE SplitFrom(s, i + 1, Append(cur, s[i]), acc)

Split(s) == SplitFrom(s, 1, <<>>, <<>>)

IsAbsolute(s) == s # <<>> /\ s[1] = "/"

\* Normalisation of an absolute path: "." dropped, ".." removes the segment
\* before it and stays at the root.
RECURSIVE NormalizeFrom(_, _, _)
NormalizeFrom(segs, i, acc) ==
  IF i > Len(segs) THEN acc
  ELSE IF segs[i] = <<".">> THEN NormalizeFrom(segs, i + 1, acc)
  ELSE IF segs[i] = <<".", ".">>
       THEN NormalizeFrom(segs, i + 1,
                          IF acc = <<>> THEN acc ELSE SubSeq(acc, 1, Len(acc) - 1))
       ELSE NormalizeFrom(segs, i + 1, Append(acc, segs[i]))

Normalize(segs) == NormalizeFrom(segs, 1, <<>>)

\* path.resolve(s): absolute, normalised; a relative path is taken from Cwd.
pathResolve(s) == Normalize(IF IsAbsolute(s) THEN Split(s) ELSE Cwd \o Split(s))

\* path.dirname of a resolved path.
pathDirname(p) == IF p = <<>> THEN p ELSE SubSeq(p, 1, Len(p) - 1)

\* path.join(dir, s) with dir a resolved path: the strings are concatenated
\* with a separator and the result is normalised (an absolute s is not a
\* restart, unlike path.resolve).
pathJoin(dir, s) == Normalize(dir \o Split(s))

\* path.extname(s): from the last "." of the last segment, empty when there is
\* no "." or the only "." is the first character, or the segment is "..".
LastDot(b) == IF \E i \in 1..Len(b) : b[i] = "."
              THEN CHOOSE i \in 1..Len(b) :
                     b[i] = "." /\ \A j \in (i + 1)..Len(b) : b[j] # "."
              ELSE 0

pathExtname(s) ==
  LET segs == Split(s)
      b == IF segs = <<>> THEN <<>> ELSE segs[Len(segs)]
      d == LastDot(b)
  IN IF d <= 1 \/ b = <<".", ".">> THEN <<>> ELSE SubSeq(b, d, Len(b))

\* ------------------------------------------------------------------ Date

\* The instants at which the clock is read: half-hour steps from
\* 2025-11-02T05:30:00Z.
Instant(k) == 1762061400 + k * 1800

\* Offset of local time from UTC in seconds on the host. The Date getters use
\* the time zone of the host; this one leaves daylight saving time at
\* 2025-11-02T06:00:00Z (UTC-4 before, UTC-5 after).
TzOffset(t) == IF t < 1762063200 THEN 0 - 14400 ELSE 0 - 18000

LocalSeconds(t) == t + TzOffset(t)

getSeconds(t) == LocalSeconds(t) % 60
getMinutes(t) == (LocalSeconds(t) \div 60) % 60
getHours(t) == (LocalSeconds(t) \div 3600) % 24

\* The civil date of a day number (days since 1970-01-01), proleptic Gregorian.
Civil(z0) ==
  LET z == z0 + 719468
      era == z \div 146097
      doe == z - era * 146097
      yoe == (doe - doe \div 1460 + doe \div 36524 - doe \div 146096) \div 365
      doy == doe - (365 * yoe + yoe \div 4 - yoe \div 100)
      mp == (5 * doy + 2) \div 153
      d == doy - (153 * mp + 2) \div 5 + 1
      m == IF mp < 10 THEN mp + 3 ELSE mp - 9
  IN [y |-> yoe + era * 400 + (IF m <= 2 THEN 1 ELSE 0), m |-> m, d |-> d]

getFullYear(t) == Civil(LocalSeconds(t) \div 86400).y
getMonth(t) == Civil(LocalSeconds(t) \div 86400).m - 1
getDate(t) == Civil(LocalSeconds(t) \div 86400).d

\* z of ts(): String(n).padStart(2, "0")
z(n) == padStart2(NumStr(n))

\* ts() when the clock reads t: YYYYMMDD-HHMMSS in local time.
ts(t) == NumStr(getFullYear(t)) \o z(getMonth(t) + 1) \o z(getDate(t)) \o Str_dash
         \o z(getHours(t)) \o z(getMinutes(t)) \o z(getSeconds(t))

\* new Date().toLocaleString("ja-JP") when the clock reads t: y/M/d H:mm:ss.
toLocaleString(t) ==
  NumStr(getFullYear(t)) \o <<"/">> \o NumStr(getMonth(t) + 1) \o <<"/">>
  \o NumStr(getDate(t)) \o <<" ">> \o NumStr(getHours(t)) \o <<":">>
  \o z(getMinutes(t)) \o <<":">> \o z(getSeconds(t))

\* ------------------------------------------------------------------ JSON values

\* A JSON value as safeMeta sees it: its type t, its text s (a string) and its
\* number n (a number). "undef" is a missing key.
JV(t, s, n) == [t |-> t, s |-> s, n |-> n]
Undef == JV("undef", <<>>, 0)
Null == JV("null", <<>>, 0)
JStr(s) == JV("str", s, 0)
JNum(n) == JV("num", <<>>, n)

\* String(v)
String(v) ==
  CASE v.t = "str" -> v.s
    [] v.t = "num" -> NumStr(v.n)
    [] v.t = "null" -> <<"n", "u", "l", "l">>
    [] OTHER -> <<"u", "n", "d", "e", "f", "i", "n", "e", "d">>

\* A metadata object: t is "obj" for an object and the type of the value
\* otherwise; the two fields are Undef when the key is missing.
Meta(t, name, date) == [t |-> t, name |-> name, appointment_date |-> date]
EmptyObject == Meta("obj", Undef, Undef)

\* meta?.[key]
Get(meta, key) == IF meta.t # "obj" THEN Undef
                  ELSE IF key = "name" THEN meta.name
                  ELSE IF key = "appointment_date" THEN meta.appointment_date
                  ELSE Undef

safeMeta_NoTrim(meta, key, fallback) ==
  LET v == Get(meta, key)
  IN IF v.t = "undef" \/ v.t = "null" THEN fallback
     ELSE IF String(v) # <<>> THEN String(v) ELSE fallback

safeMeta(meta, key, fallback) ==
  LET v == Get(meta, key)
  IN IF v.t = "undef" \/ v.t = "null" THEN fallback
     ELSE LET s == trim(String(v))
          IN IF s # <<>> THEN s ELSE fallback

\* ------------------------------------------------------------------ parseArgs

\* An optional string: flags.html is null until --html sets it, and is
\* undefined when --html is the last argument.
Some(s) == [def |-> TRUE, s |-> s]
None == [def |-> FALSE, s |-> <<>>]

\* parseArgs without the ++i: the argument after --html is read twice.
RECURSIVE parseFrom_NoSkip(_, _, _, _)
parseFrom_NoSkip(argv, i, html, positional) ==
  IF i > Len(argv) THEN [flags |-> [html |-> html], positional |-> positional]
  ELSE IF argv[i] = Str_html_flag
       THEN parseFrom_NoSkip(argv, i + 1,
                             IF i + 1 <= Len(argv) THEN Some(argv[i + 1]) ELSE None,
                             positional)
       ELSE parseFrom_NoSkip(argv, i + 1, html, Append(positional, argv[i]))

parseArgs_NoSkip(argv) == parseFrom_NoSkip(argv, 1, None, <<>>)

RECURSIVE parseFrom(_, _, _, _)
parseFrom(argv, i, html, positional) ==
  IF i > Len(argv) THEN [flags |-> [html |-> html], positional |-> positional]
  ELSE IF argv[i] = Str_html_flag
       THEN parseFrom(argv, i + 2,
                      IF i + 1 <= Len(argv) THEN Some(argv[i + 1]) ELSE None,
                      positional)
       ELSE parseFrom(argv, i + 1, html, Append(positional, argv[i]))

parseArgs(argv) == parseFrom(argv, 1, None, <<>>)

\* ------------------------------------------------------------------ inputs

Str_t == <<"t">>
Str_c_t == <<"c", "/", "t">>
Str_h == <<"h">>
Str_o_pdf == <<"o", ".", "p", "d", "f">>
Str_o_PDF == <<"o", ".", "P", "D", "F">>
Str_o_txt == <<"o", ".", "t", "x", "t">>
Str_o == <<"o">>
Str_up_o_pdf == <<".", ".", "/", "o", ".", "p", "d", "f">>
Str_empty == <<>>

\* The command lines of the model (process.argv after node and the script).
ArgvSet ==
  { <<>>,
    <<Str_html_flag>>,
    <<Str_html_flag, Str_h>>,
    <<Str_html_flag, Str_t>>,
    <<Str_t>>,
    <<Str_c_t>>,
    <<Str_t, Str_o_pdf>>,
    <<Str_c_t, Str_o_PDF>>,
    <<Str_t, Str_o_txt>>,
    <<Str_t, Str_o>>,
    <<Str_t, Str_empty>>,
    <<Str_c_t, Str_up_o_pdf>>,
    <<Str_t, Str_html_flag>>,
    <<Str_html_flag, Str_h, Str_t, Str_o_pdf>>,
    <<Str_t, Str_html_flag, Str_h, Str_o_pdf>>,
    <<Str_t, Str_o_pdf, Str_html_flag, Str_h>> }

\* Region entries are opaque to the program: numbered objects.
RECURSIVE SeqsUpTo(_, _)
SeqsUpTo(S, n) ==
  IF n = 0 THEN {<<>>}
  ELSE LET shorter == SeqsUpTo(S, n - 1)
       IN shorter \cup {Append(q, x) : q \in {r \in shorter : Len(r) = n - 1}, x \in S}

IsInjective(q) == \A i, j \in 1..Len(q) : q[i] = q[j] => i = j

RegionArrays == {q \in SeqsUpTo(1..MaxRegions, MaxRegions) : IsInjective(q)}

\* Values of json.tricho_analysis: missing, a string, or an array.
TA(t, items) == [t |-> t, items |-> items]
AnalysisValues == {TA("undef", <<>>), TA("str", <<>>)}
                  \cup {TA("arr", q) : q \in RegionArrays}

NameValues == {Undef, Null, JStr(<<" ">>), JStr(<<" ", "P", "1", " ">>),
               JStr(<<"-">>), JNum(0)}
DateValues == {Undef, JStr(<<"\t">>), JStr(<<"7", "/", "2", "0">>)}

\* Values of json.report_metadata: missing, null, a string, or an object.
MetadataValues == {Meta("undef", Undef, Undef), Meta("null", Undef, Undef),
                   Meta("str", Undef, Undef)}
                  \cup {Meta("obj", n, d) : n \in NameValues, d \in DateValues}

\* What fs.readFile and JSON.parse make of tricho_data.json: the read fails,
\* the text is no JSON, the text is the JSON null, or it is a JSON object.
DataFile(kind, m, a) == [kind |-> kind, report_metadata |-> m, tricho_analysis |-> a]
DataFiles == {DataFile(k, Meta("undef", Undef, Undef), TA("undef", <<>>)) :
                k \in {"unreadable", "garbage", "null"}}
             \cup {DataFile("obj", m, a) : m \in MetadataValues, a \in AnalysisValues}

\* ------------------------------------------------------------------ paths of a run

DEFAULT_HTML_PATH == Dirname \o <<Str_template>>

\* Lines 77-88 of main with the clock reading t at ts(): tempDir, htmlPath
\* and outPath from the parsed command line.
UsesCallerName(positional) ==
  /\ Len(positional) >= 2
  /\ positional[2] # <<>>
  /\ toLowerCase(pathExtname(positional[2])) = Str_pdf_ext

GeneratedName(t) == Str_report \o ts(t) \o Str_pdf_ext

ResolvePaths(parsed, t) ==
  LET positional == parsed.positional
      html == parsed.flags.html
      tempDir == pathResolve(positional[1])
      parentDir == pathDirname(tempDir)
  IN [tempDir |-> tempDir,
      htmlPath |-> IF html.def /\ html.s # <<>> THEN pathResolve(html.s)
                   ELSE DEFAULT_HTML_PATH,
      outPath |-> pathJoin(parentDir,
                           IF UsesCallerName(positional) THEN positional[2]
                           ELSE GeneratedName(t))]

Reverse(q) == [i \in 1..Len(q) |-> q[Len(q) + 1 - i]]

readTrichoData_Reversed(json) ==
  [meta |-> IF json.report_metadata.t \in {"obj", "str"} THEN json.report_metadata
            ELSE EmptyObject,
   arr |-> IF json.tricho_analysis.t = "arr" THEN Reverse(json.tricho_analysis.items)
           ELSE <<>>]

\* readTrichoData on a parsed JSON object.
readTrichoData(json) ==
  [meta |-> IF json.report_metadata.t \in {"obj", "str"} THEN json.report_metadata
            ELSE EmptyObject,
   arr |-> IF json.tricho_analysis.t = "arr" THEN json.tricho_analysis.items
           ELSE <<>>]

Str_fallback_id == <<"-">>

\* ------------------------------------------------------------------ toBaseUrl

Str_file_scheme == <<"f", "i", "l", "e", ":", "/", "/">>
Str_filtered_images == <<"f", "i", "l", "t", "e", "r", "e", "d", "_", "i", "m", "a", "g",
                         "e", "s">>
Str_normal_images == <<"n", "o", "r", "m", "a", "l", "_", "i", "m", "a", "g", "e", "s">>

\* The string of a resolved path: "/" for the root, "/a/b" otherwise.
RECURSIVE PathString(_)
PathString(p) ==
  IF p = <<>> THEN <<"/">>
  ELSE IF Len(p) = 1 THEN <<"/">> \o p[1]
  ELSE PathString(SubSeq(p, 1, Len(p) - 1)) \o <<"/">> \o p[Len(p)]

\* The percent-encoding of one character of a file URL path.
EncodeChar(c) ==
  CASE c = " " -> <<"%", "2", "0">>
    [] c = "%" -> <<"%", "2", "5">>
    [] OTHER -> <<c>>

RECURSIVE EncodePath(_)
EncodePath(s) == IF s = <<>> THEN <<>> ELSE EncodeChar(Head(s)) \o EncodePath(Tail(s))

\* pathToFileURL(p).href for an absolute path string.
pathToFileURL(s) == Str_file_scheme \o EncodePath(s)

endsWithSlash(s) == s # <<>> /\ s[Len(s)] = "/"

toBaseUrl_NoSlash(d) == pathToFileURL(PathString(pathResolve(d)))

\* toBaseUrl(dirPath): the file URL of the resolved directory, "/" appended
\* when the URL does not end with one.
toBaseUrl(d) ==
  LET href == pathToFileURL(PathString(pathResolve(d)))
  IN IF ~endsWithSlash(href) THEN href \o <<"/">> ELSE href

\* Lines 126-127: path.join of the bundle directory, and of __dirname, with
\* the name of the image folder.
patientImagesDir(tempDir) == PathString(pathJoin(tempDir, Str_filtered_images))
normalImagesDir == PathString(pathJoin(Dirname, Str_normal_images))

\* Lines 152-155
Images(tempDir) ==
  [normalBaseUrl |-> toBaseUrl(normalImagesDir),
   patientBaseUrl |-> toBaseUrl(patientImagesDir(tempDir))]

\* ------------------------------------------------------------------ state

VARIABLES
  argv,        \* the command line of the run
  pc,          \* the awaited step main() is at; "rejected", "exited", "done"
  positional,  \* parseArgs(argv).positional
  flags,       \* parseArgs(argv).flags
  paths,       \* tempDir, htmlPath and outPath of the run
  genTick,     \* the clock reading of ts(), -1 when ts() was not called
  data,        \* what readTrichoData read: meta and arr, and the file
  patientId,   \* safeMeta(meta, "name", "-")
  examDate,    \* safeMeta(meta, "appointment_date", now)
  nowTick,     \* the clock reading of the exam-date fallback, -1 before
  browser,     \* "none", "open", "closed"
  page,        \* "none", "blank", and once loaded "function" or "missing":
               \* whether window.renderReportFromJson is a function
  injected,    \* the payloads the entry point was called with
  outFile,     \* the file at outPath: "absent", "partial", "complete"
  exitCode,    \* -1 while the process runs
  err,         \* the step whose failure rejected main(), "none" otherwise
  log,         \* the steps performed, in order
  names,       \* output names computed by successive runs (name generation)
  tree,        \* newest_folder_getter.ps1: the folders under the database root
  found,       \* newest_folder_getter.ps1: what the script returns
  dirPath,     \* toBaseUrl: its argument
  baseUrl      \* toBaseUrl: its result

vars == <<argv, pc, positional, flags, paths, genTick, data, patientId, examDate,
          nowTick, browser, page, injected, outFile, exitCode, err, log, names,
          tree, found, dirPath, baseUrl>>

lookupVars == <<tree, found>>
urlVars == <<dirPath, baseUrl>>

\* The script and the function that a specification does not run.
NoEntry == [name |-> "", ext |-> "", mtime |-> 0]
Found(kind, folder, file) == [kind |-> kind, folder |-> folder, file |-> file]
NoLookup == tree = {} /\ found = Found("idle", "", NoEntry)
NoUrl == dirPath = [s |-> <<>>, exists |-> FALSE] /\ baseUrl = <<>>

NoPaths == [tempDir |-> <<>>, htmlPath |-> <<>>, outPath |-> <<>>]
NoData == [file |-> DataFile("none", Meta("undef", Undef, Undef), TA("undef", <<>>)),
           meta |-> EmptyObject, arr |-> <<>>]

Idle ==
  /\ pc = "start"
  /\ positional = <<>>
  /\ flags = [html |-> None]
  /\ paths = NoPaths
  /\ genTick = -1
  /\ data = NoData
  /\ patientId = <<>>
  /\ examDate = <<>>
  /\ nowTick = -1
  /\ browser = "none"
  /\ page = "none"
  /\ injected = <<>>
  /\ outFile = "absent"
  /\ exitCode = -1
  /\ err = "none"
  /\ log = <<>>

Init ==
  /\ argv \in ArgvSet
  /\ Idle
  /\ names = <<>>
  /\ NoLookup /\ NoUrl

\* ------------------------------------------------------------------ main()

\* process.exit(1) from a step of main.
Ev(step, out) == [step |-> step, out |-> out]

Exit1(step) ==
  /\ pc' = "exited"
  /\ exitCode' = 1
  /\ log' = Append(log, Ev(step, "exit"))

\* A rejection of main(): the step throws, main().catch runs next.
Reject(step) ==
  /\ pc' = "rejected"
  /\ err' = step
  /\ log' = Append(log, Ev(step, "throw"))

\* The step completes and main goes on to the next await.
Goto(next, step, out) ==
  /\ pc' = next
  /\ log' = Append(log, Ev(step, out))

\* positional.length < 1
UsageError(p) == Len(p) < 1

\* Lines 61-98: parse the command line, print the usage and exit without a
\* positional argument, otherwise resolve the paths of the run.
Start ==
  /\ pc = "start"
  /\ LET parsed == parseArgs(argv)
     IN /\ positional' = parsed.positional
        /\ flags' = parsed.flags
        /\ IF UsageError(parsed.positional)
           THEN /\ Exit1("usage")
                /\ UNCHANGED <<paths, genTick>>
           ELSE /\ \E k \in 0..MaxTick :
                     /\ genTick' = IF UsesCallerName(parsed.positional) THEN -1 ELSE k
                     /\ paths' = ResolvePaths(parsed, Instant(k))
                /\ Goto("access_data", "resolve", "ok")
                /\ UNCHANGED exitCode
  /\ UNCHANGED <<argv, data, patientId, examDate, nowTick, browser, page, injected,
                 outFile, err, names, lookupVars, urlVars>>

\* Lines 101-106: fs.access of tricho_data.json; process.exit(1) when it fails.
AccessData ==
  /\ pc = "access_data"
  /\ \E ok \in BOOLEAN :
       IF ok THEN Goto("access_html", "access_data", "ok") /\ UNCHANGED exitCode
       ELSE Exit1("access_data")
  /\ UNCHANGED <<argv, positional, flags, paths, genTick, data, patientId, examDate,
                 nowTick, browser, page, injected, outFile, err, names, lookupVars, urlVars>>

\* Lines 107-110: fs.access of the template; process.exit(1) when it fails.
AccessHtml ==
  /\ pc = "access_html"
  /\ \E ok \in BOOLEAN :
       IF ok THEN Goto("read", "access_html", "ok") /\ UNCHANGED exitCode
       ELSE Exit1("access_html")
  /\ UNCHANGED <<argv, positional, flags, paths, genTick, data, patientId, examDate,
                 nowTick, browser, page, injected, outFile, err, names, lookupVars, urlVars>>

ReadThrows_ParseLenient(file) == file.kind \in {"unreadable", "null"}

\* readFile or JSON.parse throws, or json is null and json.report_metadata throws.
ReadThrows(file) == file.kind \in {"unreadable", "garbage", "null"}

\* Lines 113-129: readTrichoData and the two normalised fields. The clock is
\* read for the fallback of the exam date whether or not it is used.
ReadData ==
  /\ pc = "read"
  /\ \E file \in DataFiles :
       IF ReadThrows(file)
       THEN /\ Reject("read")
            /\ data' = [data EXCEPT !.file = file]
            /\ UNCHANGED <<patientId, examDate, nowTick>>
       ELSE \E k \in 0..MaxTick :
              LET r == readTrichoData(file)
                  id == safeMeta(r.meta, "name", Str_fallback_id)
                  date == safeMeta(r.meta, "appointment_date", toLocaleString(Instant(k)))
              IN /\ k >= genTick
                 /\ data' = [file |-> file, meta |-> r.meta, arr |-> r.arr]
                 /\ patientId' = id
                 /\ examDate' = date
                 /\ nowTick' = IF date = toLocaleString(Instant(k)) THEN k ELSE -1
                 /\ Goto("launch", "read", "ok")
                 /\ UNCHANGED err
  /\ UNCHANGED <<argv, positional, flags, paths, genTick, browser, page, injected,
                 outFile, exitCode, names, lookupVars, urlVars>>

\* Lines 132-136: puppeteer.launch.
Launch ==
  /\ pc = "launch"
  /\ \E ok \in BOOLEAN :
       IF ok THEN Goto("newPage", "launch", "ok") /\ browser' = "open" /\ UNCHANGED err
       ELSE Reject("launch") /\ UNCHANGED browser
  /\ UNCHANGED <<argv, positional, flags, paths, genTick, data, patientId, examDate,
                 nowTick, page, injected, outFile, exitCode, names, lookupVars, urlVars>>

\* Lines 137-145: browser.newPage and the console relay.
NewPage ==
  /\ pc = "newPage"
  /\ \E ok \in BOOLEAN :
       IF ok THEN Goto("goto", "newPage", "ok") /\ page' = "blank" /\ UNCHANGED err
       ELSE Reject("newPage") /\ UNCHANGED page
  /\ UNCHANGED <<argv, positional, flags, paths, genTick, data, patientId, examDate,
                 nowTick, browser, injected, outFile, exitCode, names, lookupVars, urlVars>>

\* page.goto without its await: main goes on while the page is still blank.
Navigate_Unawaited ==
  /\ pc = "goto"
  /\ Goto("evaluate", "goto", "pending")
  /\ UNCHANGED <<argv, positional, flags, paths, genTick, data, patientId, examDate,
                 nowTick, browser, page, injected, outFile, exitCode, err, names,
                 lookupVars, urlVars>>

\* Lines 147-155: page.goto of the template; the document loaded defines
\* window.renderReportFromJson as a function, or does not.
Navigate ==
  /\ pc = "goto"
  /\ \E ok \in BOOLEAN, entry \in {"function", "missing"} :
       IF ok THEN Goto("evaluate", "goto", "ok") /\ page' = entry /\ UNCHANGED err
       ELSE Reject("goto") /\ UNCHANGED page
  /\ UNCHANGED <<argv, positional, flags, paths, genTick, data, patientId, examDate,
                 nowTick, browser, injected, outFile, exitCode, names, lookupVars, urlVars>>

EntryMissing_Unchecked(p) == FALSE

\* typeof window.renderReportFromJson !== "function"
EntryMissing(p) == p # "function"

\* The payload of page.evaluate.
Payload == [data |-> data.arr, patientId |-> patientId, examDate |-> examDate,
            images |-> Images(paths.tempDir)]

\* The page function calling the entry point twice.
Evaluate_Twice ==
  /\ pc = "evaluate"
  /\ IF EntryMissing(page)
     THEN Reject("evaluate") /\ UNCHANGED injected
     ELSE /\ injected' = injected \o <<Payload, Payload>>
          /\ \E ok \in BOOLEAN :
               IF ok THEN Goto("wait", "evaluate", "ok") /\ UNCHANGED err
               ELSE Reject("evaluate")
  /\ UNCHANGED <<argv, positional, flags, paths, genTick, data, patientId, examDate,
                 nowTick, browser, page, outFile, exitCode, names, lookupVars, urlVars>>

\* Lines 157-176: page.evaluate. Without the entry point the page function
\* throws before any call; with it the entry point is called once with the
\* payload and may itself throw.
Evaluate ==
  /\ pc = "evaluate"
  /\ IF EntryMissing(page)
     THEN Reject("evaluate") /\ UNCHANGED injected
     ELSE /\ injected' = Append(injected, Payload)
          /\ \E ok \in BOOLEAN :
               IF ok THEN Goto("wait", "evaluate", "ok") /\ UNCHANGED err
               ELSE Reject("evaluate")
  /\ UNCHANGED <<argv, positional, flags, paths, genTick, data, patientId, examDate,
                 nowTick, browser, page, outFile, exitCode, names, lookupVars, urlVars>>

AfterWait_Propagates(outcome) == IF outcome = "timeout" THEN "rejected" ELSE "count"

\* Lines 179-181: the rejection of waitForSelector is caught by an empty
\* handler, so main goes on to the card count after either outcome.
AfterWait(outcome) == "count"

\* Lines 178-181: waitForSelector("#mini tbody tr", 8000 ms).
Wait ==
  /\ pc = "wait"
  /\ \E outcome \in {"found", "timeout"} :
       IF AfterWait(outcome) = "rejected"
       THEN pc' = "rejected" /\ err' = "wait" /\ log' = Append(log, Ev("wait", outcome))
       ELSE Goto(AfterWait(outcome), "wait", outcome) /\ UNCHANGED err
  /\ UNCHANGED <<argv, positional, flags, paths, genTick, data, patientId, examDate,
                 nowTick, browser, page, injected, outFile, exitCode, names, lookupVars, urlVars>>

\* $$eval(".card") without its catch: the rejection goes to main().catch.
Count_Propagates ==
  /\ pc = "count"
  /\ \E ok \in BOOLEAN :
       IF ok THEN Goto("emulate", "count", "ok") /\ UNCHANGED err
       ELSE Reject("count")
  /\ UNCHANGED <<argv, positional, flags, paths, genTick, data, patientId, examDate,
                 nowTick, browser, page, injected, outFile, exitCode, names,
                 lookupVars, urlVars>>

\* Lines 182-185: $$eval(".card"); a rejection is caught and counts as 0.
Count ==
  /\ pc = "count"
  /\ \E out \in {"ok", "caught"} : Goto("emulate", "count", out)
  /\ UNCHANGED <<argv, positional, flags, paths, genTick, data, patientId, examDate,
                 nowTick, browser, page, injected, outFile, exitCode, err, names, lookupVars, urlVars>>

\* Lines 187-189: page.emulateMediaType("screen").
Emulate ==
  /\ pc = "emulate"
  /\ \E ok \in BOOLEAN :
       IF ok THEN Goto("pdf", "emulate", "ok") /\ UNCHANGED err
       ELSE Reject("emulate")
  /\ UNCHANGED <<argv, positional, flags, paths, genTick, data, patientId, examDate,
                 nowTick, browser, page, injected, outFile, exitCode, names, lookupVars, urlVars>>

\* What a failed page.pdf({path}) leaves at outPath: the file is written in
\* place, so a failure before the write leaves the path as it was and a
\* failure during the write leaves a partial file. Nothing in main removes it.
PdfFailureLeaves(before) == {before, "partial"}

\* Lines 190-195: page.pdf writes the file at outPath.
Pdf ==
  /\ pc = "pdf"
  /\ \/ Goto("close", "pdf", "ok") /\ outFile' = "complete" /\ UNCHANGED err
     \/ \E left \in PdfFailureLeaves(outFile) : Reject("pdf") /\ outFile' = left
  /\ UNCHANGED <<argv, positional, flags, paths, genTick, data, patientId, examDate,
                 nowTick, browser, page, injected, exitCode, names, lookupVars, urlVars>>

\* Lines 197-198: browser.close, then main returns and the process ends with
\* status 0 once nothing is left to run.
Close ==
  /\ pc = "close"
  /\ \E ok \in BOOLEAN :
       IF ok THEN /\ Goto("done", "close", "ok")
                  /\ browser' = "closed"
                  /\ exitCode' = 0
                  /\ UNCHANGED err
       ELSE Reject("close") /\ UNCHANGED <<browser, exitCode>>
  /\ UNCHANGED <<argv, positional, flags, paths, genTick, data, patientId, examDate,
                 nowTick, page, injected, outFile, names, lookupVars, urlVars>>

MainCatch_ExitZero ==
  /\ pc = "rejected"
  /\ pc' = "exited"
  /\ exitCode' = 0
  /\ log' = Append(log, Ev("catch", "exit"))
  /\ UNCHANGED <<argv, positional, flags, paths, genTick, data, patientId, examDate,
                 nowTick, browser, page, injected, outFile, err, names, lookupVars, urlVars>>

\* Lines 201-204: main().catch logs the error and calls process.exit(1).
MainCatch ==
  /\ pc = "rejected"
  /\ Exit1("catch")
  /\ UNCHANGED <<argv, positional, flags, paths, genTick, data, patientId, examDate,
                 nowTick, browser, page, injected, outFile, err, names, lookupVars, urlVars>>

Next ==
  \/ Start
  \/ AccessData
  \/ AccessHtml
  \/ ReadData
  \/ Launch
  \/ NewPage
  \/ Navigate
  \/ Evaluate
  \/ Wait
  \/ Count
  \/ Emulate
  \/ Pdf
  \/ Close
  \/ MainCatch

Spec == Init /\ [][Next]_vars

Terminated == pc \in {"exited", "done"}

\* ------------------------------------------------------------------ observations

Did(step, out) == \E i \in 1..Len(log) : log[i] = Ev(step, out)
Launched == Did("launch", "ok")
TimedOut == Did("wait", "timeout")
Exported == Did("pdf", "ok")
Failed == \E i \in 1..Len(log) : log[i].out \in {"exit", "throw"}

\* ------------------------------------------------------------------ C1

\* C1: in every run that acquired the browser, browser.close has been
\* performed when the run has terminated, whatever the exit path.
C1_ReleasedOnEveryExit ==
  (Terminated /\ Launched) => (browser = "closed" /\ Did("close", "ok"))

\* ------------------------------------------------------------------ C2

\* C2: a settle-wait that times out does not reject main: the run goes on,
\* and when no other step fails it exports the PDF and ends with status 0.
C2_TimeoutNotFatal ==
  TimedOut =>
    /\ err # "wait"
    /\ pc \notin {"wait", "count"} => Did("count", "ok") \/ Did("count", "caught")
    /\ (Terminated /\ err = "none") =>
         (pc = "done" /\ Exported /\ outFile = "complete" /\ exitCode = 0)

C2_Witness == TimedOut /\ pc = "done" /\ outFile = "complete" /\ exitCode = 0

\* ------------------------------------------------------------------ C3

InputFailed ==
  \/ Did("access_data", "exit")
  \/ Did("access_html", "exit")
  \/ data.file.kind \in {"unreadable", "garbage", "null"}

\* C3: when tricho_data.json is absent or unparsable, or the template is
\* absent, the run ends with a non-zero status, the browser is never
\* launched and no output file is written.
C3_MissingInputFatal ==
  InputFailed =>
    /\ pc \in {"rejected", "exited"}
    /\ Terminated => exitCode = 1
    /\ browser = "none" /\ ~Did("launch", "ok") /\ ~Did("launch", "throw")
    /\ outFile = "absent"

C3_Witness == pc = "exited" /\ data.file.kind = "garbage" /\ exitCode = 1

\* ------------------------------------------------------------------ C4

\* C4: when the loaded template has no function renderReportFromJson, the
\* injection throws: the entry point is not called, neither the settle-wait
\* nor the export is started, no file is written and the status is non-zero.
C4_MissingEntryPointFatal ==
  (page = "missing" /\ pc # "evaluate") =>
    /\ pc \in {"rejected", "exited"}
    /\ err = "evaluate"
    /\ injected = <<>>
    /\ \A i \in 1..Len(log) : log[i].step \notin {"wait", "count", "emulate", "pdf"}
    /\ outFile = "absent"
    /\ Terminated => exitCode = 1

C4_Witness == page = "missing" /\ pc = "exited" /\ exitCode = 1

\* ------------------------------------------------------------------ C5

\* C5: a file exists at the output path only if the export step completed;
\* a run that fails before leaves no partial file.
C5_NoPartialFile == outFile # "absent" => (Exported /\ outFile = "complete")

\* ------------------------------------------------------------------ C6

Succeeded ==
  /\ pc = "done"
  /\ err = "none"
  /\ Exported /\ outFile = "complete"
  /\ Did("close", "ok")

\* C6: the exit status of a terminated run is 0 exactly when the run
\* succeeded, and non-zero after every fatal error: usage, a missing input or
\* template, a missing entry point, or the failure of any step of the render
\* sequence.
C6_ExitStatus ==
  Terminated =>
    /\ exitCode \in {0, 1}
    /\ exitCode = 0 <=> Succeeded
    /\ Failed => exitCode # 0
    /\ err # "none" => exitCode # 0

C6_Witness == Terminated /\ err = "close" /\ exitCode = 1 /\ outFile = "complete"

\* ------------------------------------------------------------------ C7

\* Command lines without a positional argument: empty, or --html and values.
OnlyHtmlFlag ==
  { <<>>, <<Str_html_flag>>, <<Str_html_flag, Str_h>>, <<Str_html_flag, Str_t>> }

\* C7: a command line that yields no positional argument prints the usage and
\* exits with status 1 as its only step: nothing is read, no browser is
\* launched, no file is written.
C7_UsageError ==
  pc # "start" =>
    /\ argv \in OnlyHtmlFlag => positional = <<>>
    /\ positional = <<>> =>
         /\ pc = "exited" /\ exitCode = 1
         /\ log = <<Ev("usage", "exit")>>
         /\ data = NoData /\ browser = "none" /\ page = "none"
         /\ outFile = "absent" /\ paths = NoPaths

C7_Witness == pc = "exited" /\ argv = <<Str_html_flag, Str_h>> /\ positional = <<>>

\* ------------------------------------------------------------------ C8

\* The string ends with ".pdf" in any letter case, after a non-empty stem
\* that belongs to the same path segment.
CarriesPdfExtension(s) ==
  /\ Len(s) > 4
  /\ s[Len(s) - 3] = "."
  /\ s[Len(s) - 2] \in {"p", "P"}
  /\ s[Len(s) - 1] \in {"d", "D"}
  /\ s[Len(s)] \in {"f", "F"}
  /\ s[Len(s) - 4] # "/"

FileName(p) == p[Len(p)]

\* C8: the output path lies in the parent of the bundle directory; its file
\* name is the second positional argument exactly when that argument is
\* present with a .pdf extension, and the generated name otherwise.
C8_OutputInParent ==
  (pc # "start" /\ positional # <<>>) =>
    LET parent == pathDirname(paths.tempDir)
        named == Len(positional) >= 2 /\ CarriesPdfExtension(positional[2])
    IN /\ paths.outPath # <<>>
       /\ pathDirname(paths.outPath) = parent
       /\ named => FileName(paths.outPath) = positional[2] /\ genTick = -1
       /\ ~named => /\ genTick >= 0
                    /\ FileName(paths.outPath) = GeneratedName(Instant(genTick))

\* ------------------------------------------------------------------ C9

\* Lines 61-88 for one more run: the names of successive runs of the program,
\* the clock never going back between two runs.
NameRun ==
  /\ Len(names) < MaxRuns
  /\ \E a \in ArgvSet, k \in 0..MaxTick :
       LET parsed == parseArgs(a)
       IN /\ ~UsageError(parsed.positional)
          /\ names # <<>> => k >= names[Len(names)].tick
          /\ names' = Append(names,
               [argv |-> a, tick |-> k,
                generated |-> ~UsesCallerName(parsed.positional),
                parent |-> pathDirname(pathResolve(parsed.positional[1])),
                outPath |-> ResolvePaths(parsed, Instant(k)).outPath])
  /\ UNCHANGED <<argv, pc, positional, flags, paths, genTick, data, patientId,
                 examDate, nowTick, browser, page, injected, outFile, exitCode, err,
                 log, lookupVars, urlVars>>

InitNames == argv = <<>> /\ Idle /\ names = <<>> /\ NoLookup /\ NoUrl

SpecNames == InitNames /\ [][NameRun]_vars

IsDigit(c) == c \in {"0", "1", "2", "3", "4", "5", "6", "7", "8", "9"}

\* report-YYYYMMDD-HHMMSS.pdf
HasGeneratedForm(n) ==
  /\ Len(n) = 26
  /\ SubSeq(n, 1, 7) = Str_report
  /\ \A i \in 8..15 : IsDigit(n[i])
  /\ n[16] = "-"
  /\ \A i \in 17..22 : IsDigit(n[i])
  /\ SubSeq(n, 23, 26) = Str_pdf_ext

\* C9: a generated name has the form report-YYYYMMDD-HHMMSS.pdf, and two
\* runs for the same bundle parent that generate their names in different
\* seconds obtain different output paths.
C9_GeneratedNamesUnique ==
  /\ \A i \in 1..Len(names) :
       names[i].generated => HasGeneratedForm(FileName(names[i].outPath))
  /\ \A i, j \in 1..Len(names) :
       (/\ i < j
        /\ names[i].generated /\ names[j].generated
        /\ names[i].parent = names[j].parent
        /\ Instant(names[i].tick) # Instant(names[j].tick))
       => names[i].outPath # names[j].outPath

\* ------------------------------------------------------------------ C10

\* The field of the metadata file value, missing when the value is no object.
Field(m, key) == IF m.t = "obj" THEN m[key] ELSE Undef

\* r is s without its leading and trailing white space.
IsTrimOf(r, s) ==
  \E i \in 1..(Len(s) + 1), j \in 0..Len(s) :
    /\ r = SubSeq(s, i, j)
    /\ \A k \in 1..(i - 1) : IsSpace(s[k])
    /\ \A k \in (j + 1)..Len(s) : IsSpace(s[k])
    /\ r # <<>> => ~IsSpace(r[1]) /\ ~IsSpace(r[Len(r)])

Blank(v) == v.t \in {"undef", "null"} \/ \A k \in 1..Len(String(v)) : IsSpace(String(v)[k])

\* C10: each normalised field is the fallback when the field is absent, null
\* or blank, and the trimmed string form of its own value otherwise, whatever
\* the other field holds.
C10_SafeMeta ==
  Did("read", "ok") =>
    LET name == Field(data.file.report_metadata, "name")
        date == Field(data.file.report_metadata, "appointment_date")
    IN /\ Blank(name) => patientId = Str_fallback_id
       /\ ~Blank(name) => IsTrimOf(patientId, String(name)) /\ patientId # <<>>
       /\ Blank(date) => nowTick >= 0 /\ examDate = toLocaleString(Instant(nowTick))
       /\ ~Blank(date) => IsTrimOf(examDate, String(date)) /\ examDate # <<>>

C10_Witness ==
  /\ Did("read", "ok")
  /\ data.file.report_metadata.t = "obj"
  /\ data.file.report_metadata.name = JStr(<<" ", "P", "1", " ">>)
  /\ data.file.report_metadata.appointment_date = Undef
  /\ patientId = <<"P", "1">>
  /\ examDate = toLocaleString(Instant(nowTick))

\* ------------------------------------------------------------------ C11

\* The text of the data file is JSON: JSON.parse returns a value.
Parsable(file) == file.kind \in {"obj", "null"}

\* C11: a parsable data file whose tricho_analysis is missing or no array is
\* read without an error, gives an empty region sequence to the loader and to
\* the payload, and the run succeeds unless a later step fails.
C11_NonArrayIsEmpty ==
  (Parsable(data.file) /\ data.file.tricho_analysis.t # "arr") =>
    /\ ~Did("read", "throw") /\ err # "read"
    /\ data.arr = <<>>
    /\ \A i \in 1..Len(injected) : injected[i].data = <<>>
    /\ (Terminated /\ err = "none") => (pc = "done" /\ exitCode = 0)

\* ------------------------------------------------------------------ C12

\* C12: the region sequence the entry point is called with is the
\* tricho_analysis array of the file, entry for entry in the same order.
C12_OrderPreserved ==
  (data.file.kind = "obj" /\ data.file.tricho_analysis.t = "arr") =>
    /\ Did("read", "ok") => data.arr = data.file.tricho_analysis.items
    /\ \A i \in 1..Len(injected) : injected[i].data = data.file.tricho_analysis.items

C12_Witness ==
  /\ Len(injected) = 1
  /\ data.file.tricho_analysis = TA("arr", <<2, 1>>)
  /\ injected[1].data = <<2, 1>>

\* ------------------------------------------------------------------ newest_folder_getter.ps1

\* Get-Date "2025-07-20": midnight of that day, in seconds of local time.
TargetDate == 1752969600

\* DateTime.Date: the midnight that starts the day of t.
DateOf(t) == t - (t % 86400)

\* Modification times from the last second of the day before the threshold.
FileTimes == {DateOf(TargetDate) - 1 + k : k \in 0..MaxFileTick}

FolderNames == {"A", "B"}
FileNames == {"f1", "f2"}

FileEntry(name, ext, mtime) == [name |-> name, ext |-> ext, mtime |-> mtime]

\* The files one name can stand for in a folder: none, or one file.
FilesNamed(n) ==
  {{}} \cup {{FileEntry(n, e, t)} : e \in {"pdf", "txt"}, t \in FileTimes}

FileSets == {a \cup b : a \in FilesNamed("f1"), b \in FilesNamed("f2")}

FolderEntry(name, mtime, files) == [name |-> name, mtime |-> mtime, files |-> files]

FoldersNamed(n) ==
  {{}} \cup {{FolderEntry(n, t, fs)} : t \in FileTimes, fs \in FileSets}

\* The subdirectories of the database root that the script can find.
Trees == {a \cup b : a \in FoldersNamed("A"), b \in FoldersNamed("B")}

\* Sort-Object LastWriteTime -Descending | Select-Object -First 1: an entry
\* of the latest time; the order among equal times is not fixed.
NewestOf(S) == {x \in S : \A y \in S : y.mtime <= x.mtime}

\* -Filter *.pdf
MatchesFilter(f) == f.ext = "pdf"

OnOrAfter_Strict(t, threshold) == t > threshold

\* $_.LastWriteTime -ge $targetDate.Date
OnOrAfter(t, threshold) == t >= threshold

\* Lines 23-27: the files of the folder that pass the filters.
Candidates(folder) ==
  {f \in folder.files : MatchesFilter(f) /\ OnOrAfter(f.mtime, DateOf(TargetDate))}

\* Lines 11-34: the latest folder, then its newest report file on or after
\* the threshold; without a folder Get-ChildItem finds nothing.
Lookup ==
  /\ found.kind = "idle"
  /\ IF tree = {}
     THEN found' = Found("none", "", NoEntry)
     ELSE \E d \in NewestOf(tree) :
            IF Candidates(d) = {}
            THEN found' = Found("none", d.name, NoEntry)
            ELSE \E f \in NewestOf(Candidates(d)) : found' = Found("file", d.name, f)
  /\ UNCHANGED <<argv, pc, positional, flags, paths, genTick, data, patientId,
                 examDate, nowTick, browser, page, injected, outFile, exitCode, err,
                 log, names, tree, urlVars>>

InitLookup ==
  /\ argv = <<>> /\ Idle /\ names = <<>> /\ NoUrl
  /\ tree \in Trees
  /\ found = Found("idle", "", NoEntry)

SpecLookup == InitLookup /\ [][Lookup]_vars

\* ------------------------------------------------------------------ C13

\* The files of the directory the lookup was given.
GivenFiles ==
  IF \E d \in tree : d.name = found.folder
  THEN (CHOOSE d \in tree : d.name = found.folder).files
  ELSE {}

\* The PDF files modified at or after midnight of the threshold date.
Qualifying == {f \in GivenFiles : f.ext = "pdf" /\ f.mtime >= DateOf(TargetDate)}

\* C13: the lookup returns a PDF file of the directory modified on or after
\* midnight of the threshold date, none of the others being more recent, and
\* returns the no-report signal exactly when no file qualifies.
C13_NewestReport ==
  found.kind # "idle" =>
    /\ found.kind = "file" =>
         /\ found.file \in Qualifying
         /\ \A g \in Qualifying : g.mtime <= found.file.mtime
    /\ found.kind = "none" <=> Qualifying = {}
    /\ \A f \in GivenFiles : f.mtime < DateOf(TargetDate) => found.file # f

C13_Witness ==
  /\ found.kind = "file"
  /\ found.file.mtime = DateOf(TargetDate)
  /\ \E g \in GivenFiles : g.ext = "pdf" /\ g.mtime < DateOf(TargetDate)

\* ------------------------------------------------------------------ toBaseUrl on its own

PathChars == {"/", "a", ".", " "}

\* The directory strings: every string of PathChars up to MaxPathLen, and the
\* two directories main passes for each bundle directory of the model.
DirPaths ==
  SeqsUpTo(PathChars, MaxPathLen)
  \cup {normalImagesDir}
  \cup {patientImagesDir(pathResolve(a[1])) : a \in {b \in ArgvSet : b # <<>>}}

\* Lines 21-25 applied to a directory that exists or does not.
ToBaseUrl ==
  /\ baseUrl = <<>>
  /\ baseUrl' = toBaseUrl(dirPath.s)
  /\ UNCHANGED <<argv, pc, positional, flags, paths, genTick, data, patientId,
                 examDate, nowTick, browser, page, injected, outFile, exitCode, err,
                 log, names, lookupVars, dirPath>>

InitUrl ==
  /\ argv = <<>> /\ Idle /\ names = <<>> /\ NoLookup
  /\ dirPath \in [s : DirPaths, exists : BOOLEAN]
  /\ baseUrl = <<>>

SpecUrl == InitUrl /\ [][ToBaseUrl]_vars

\* ------------------------------------------------------------------ C17

\* An absolute file URL of a directory: file:/// first, "/" last, no empty
\* segment and no raw space in between.
IsDirectoryUrl(u) ==
  /\ Len(u) >= 8
  /\ SubSeq(u, 1, 8) = <<"f", "i", "l", "e", ":", "/", "/", "/">>
  /\ u[Len(u)] = "/"
  /\ \A i \in 8..(Len(u) - 1) : ~(u[i] = "/" /\ u[i + 1] = "/")
  /\ \A i \in 1..Len(u) : u[i] # " "

\* C17: toBaseUrl gives, for every directory string, existing or not, with
\* or without a trailing separator, an absolute file URL that ends with "/";
\* a trailing separator of the argument does not change the result.
C17_BaseUrlEndsWithSlash ==
  baseUrl # <<>> =>
    /\ IsDirectoryUrl(baseUrl)
    /\ dirPath.s # <<>> => baseUrl = toBaseUrl(dirPath.s \o <<"/">>)

C17_Witness ==
  /\ dirPath = [s |-> <<"a", "/">>, exists |-> FALSE]
  /\ baseUrl = <<"f", "i", "l", "e", ":", "/", "/", "/", "w", "/", "a", "/">>

\* Both image base locations of every payload the entry point received.
PayloadImagesResolved ==
  \A i \in 1..Len(injected) :
    /\ IsDirectoryUrl(injected[i].images.normalBaseUrl)
    /\ IsDirectoryUrl(injected[i].images.patientBaseUrl)

\* ------------------------------------------------------------------ C14

\* The operations on the rendering environment, in the order of the design:
\* acquire (launch, newPage), load, inject, settle (wait, count), export
\* (emulate, pdf), release.
EnvOrder == <<"launch", "newPage", "goto", "evaluate", "wait", "count", "emulate",
              "pdf", "close">>
EnvSteps == {EnvOrder[i] : i \in 1..Len(EnvOrder)}
EnvLog == SelectSeq(log, LAMBDA e : e.step \in EnvSteps)
Completed == {"ok", "found", "timeout", "caught"}

\* C14: the environment operations of a run are issued in the fixed order,
\* each once, and an operation is issued only when the one before it has
\* completed or timed out: the log of the run is a prefix of the order, all
\* but its last entry completed, and main stands at the next operation.
C14_StrictSequence ==
  /\ Len(EnvLog) <= Len(EnvOrder)
  /\ \A i \in 1..Len(EnvLog) :
       /\ EnvLog[i].step = EnvOrder[i]
       /\ i < Len(EnvLog) => EnvLog[i].out \in Completed
  /\ \A k \in 1..Len(EnvOrder) :
       pc = EnvOrder[k] =>
         /\ Len(EnvLog) = k - 1
         /\ k > 1 => EnvLog[k - 1].out \in Completed
  /\ Did("evaluate", "ok") => Did("goto", "ok")
  /\ (Did("pdf", "ok") \/ Did("pdf", "throw")) =>
       (Did("wait", "found") \/ Did("wait", "timeout"))

C14_Witness == pc = "done" /\ Len(EnvLog) = Len(EnvOrder) /\ TimedOut

\* ------------------------------------------------------------------ C15

Occurrences(step, out) == Cardinality({i \in 1..Len(log) : log[i] = Ev(step, out)})

ReachedExport ==
  \/ pc \in {"emulate", "pdf", "close", "done"}
  \/ \E i \in 1..Len(log) : log[i].step \in {"emulate", "pdf"}

\* C15: the entry point is called at most once in a run and exactly once in
\* a run that reaches the export; the browser is launched at most once and
\* nothing is asked of it after browser.close.
C15_SingleUse ==
  /\ Len(injected) <= 1
  /\ ReachedExport => Len(injected) = 1
  /\ Occurrences("launch", "ok") + Occurrences("launch", "throw") <= 1
  /\ browser # "none" <=> Occurrences("launch", "ok") = 1
  /\ \A i \in 1..Len(log) :
       log[i] = Ev("close", "ok") => (i = Len(log) /\ pc = "done" /\ browser = "closed")

C15_Witness == pc = "done" /\ Len(injected) = 1 /\ browser = "closed"

\* ------------------------------------------------------------------ C16

\* A failure of a step of the run: a rejection that propagates, a rejection
\* that is caught in place, a failed existence check.
IsFailure(e) ==
  \/ e.out \in {"throw", "caught", "timeout"}
  \/ e.out = "exit" /\ e.step \in {"access_data", "access_html"}

HandledAtTopLevel == Did("catch", "exit") /\ exitCode # 0

Propagating == {"read", "launch", "newPage", "goto", "evaluate", "emulate", "pdf", "close"}

ArgTokens == {Str_html_flag, Str_t, Str_o_pdf, Str_h}

\* Every command line of the tokens up to MaxArgs arguments.
InitArgs ==
  /\ argv \in SeqsUpTo(ArgTokens, MaxArgs)
  /\ Idle
  /\ names = <<>>
  /\ NoLookup /\ NoUrl

\* Lines 61-98 on every such command line.
SpecArgs == InitArgs /\ [][Start]_vars

\* ------------------------------------------------------------------ C18

\* The roles of the arguments, from left to right: an argument after a flag
\* is its value, "--html" that is no value is a flag, the rest is positional.
IsMarking(m) ==
  \A i \in 1..Len(argv) :
    /\ m[i] = "value" <=> (i > 1 /\ m[i - 1] = "flag")
    /\ m[i] = "flag" <=> (argv[i] = Str_html_flag /\ ~(i > 1 /\ m[i - 1] = "flag"))

Indices(m, role) == {i \in 1..Len(argv) : m[i] = role}

\* The j-th smallest element of a set of indices.
Nth(S, j) == CHOOSE i \in S : Cardinality({k \in S : k < i}) = j - 1

\* The arguments of a role, in the order of the command line.
Picked(m, role) ==
  [j \in 1..Cardinality(Indices(m, role)) |-> argv[Nth(Indices(m, role), j)]]

\* C18: the positional arguments are the command line without every --html
\* and the argument after it, in the original order, and the override is the
\* argument after the last --html, wherever the flags stand.
C18_FlagAnywhere ==
  pc # "start" =>
    \E m \in [1..Len(argv) -> {"flag", "value", "pos"}] :
      /\ IsMarking(m)
      /\ positional = Picked(m, "pos")
      /\ \A i \in Indices(m, "value") :
           \A j \in 1..Len(positional) : Nth(Indices(m, "pos"), j) # i
      /\ LET flagsAt == Indices(m, "flag")
         IN IF flagsAt = {} THEN flags.html = None
            ELSE LET last == Nth(flagsAt, Cardinality(flagsAt))
                 IN flags.html = IF last < Len(argv) THEN Some(argv[last + 1]) ELSE None
      /\ positional # <<>> =>
           /\ paths.tempDir = pathResolve(Picked(m, "pos")[1])
           /\ paths.htmlPath = IF flags.html.def /\ flags.html.s # <<>>
                               THEN pathResolve(flags.html.s) ELSE DEFAULT_HTML_PATH

C18_Witness ==
  /\ pc # "start"
  /\ argv = <<Str_t, Str_html_flag, Str_h, Str_o_pdf>>
  /\ positional = <<Str_t, Str_o_pdf>>
  /\ flags.html = Some(Str_h)
  /\ paths.outPath = <<<<"w">>, Str_o_pdf>>

====
